---------------------------- MODULE Spec2Model ----------------------------
(***************************************************************************)
(* Model of src/src/security/corridor_generator.py:                        *)
(* CorridorSecurityGenerator, the cache-backed generator of negatively     *)
(* framed security reminders.  Python strings are TLA+ strings, operated   *)
(* on with Len, \o, Head, Tail and SubSeq.                                 *)
(***************************************************************************)
EXTENDS Integers, Sequences, FiniteSets, TLC

(***************************************************************************)
(* Bounds of the model.                                                    *)
(***************************************************************************)
MaxTokens == 2        \* tokens concatenated into a classifier input
MaxCalls == 2         \* generate_reminder calls started in one behaviour

(***************************************************************************)
(* Python values.                                                          *)
(***************************************************************************)
None == <<"None">>             \* Python's None (an absent argument / entry)
Str(s) == <<"str", s>>         \* a Python str object
Val(v) == v[2]                 \* the characters of a str object
Unset == <<>>                  \* a local variable not assigned yet

(***************************************************************************)
(* String helpers: str.lower, the `in` substring test, str.strip, and the  *)
(* truth value of an object in an `if`.                                    *)
(***************************************************************************)
Upper == <<"A","B","C","D","E","F","G","H","I","J","K","L","M",
           "N","O","P","Q","R","S","T","U","V","W","X","Y","Z">>
LowerLetters == <<"a","b","c","d","e","f","g","h","i","j","k","l","m",
                  "n","o","p","q","r","s","t","u","v","w","x","y","z">>

LowerChar(c) ==
    IF \E i \in 1..26 : Upper[i] = c
    THEN LowerLetters[CHOOSE i \in 1..26 : Upper[i] = c]
    ELSE c

RECURSIVE lower(_)
lower(s) == IF s = "" THEN "" ELSE LowerChar(Head(s)) \o lower(Tail(s))

\* kw in s
Contains(kw, s) ==
    \E i \in 1..(Len(s) - Len(kw) + 1) : SubSeq(s, i, i + Len(kw) - 1) = kw

Whitespace == {" ", "\t", "\n", "\r", "\f"}

RECURSIVE lstrip(_)
lstrip(s) == IF s # "" /\ Head(s) \in Whitespace THEN lstrip(Tail(s)) ELSE s

RECURSIVE rstrip(_)
rstrip(s) ==
    IF s # "" /\ SubSeq(s, Len(s), Len(s)) \in Whitespace
    THEN rstrip(SubSeq(s, 1, Len(s) - 1))
    ELSE s

strip(s) == rstrip(lstrip(s))

\* bool(v) for v a str or None
Truthy(v) == v # None /\ v # Str("")

\* str(v) as an f-string formats it
Format(v) == IF v = None THEN "None" ELSE Val(v)

(***************************************************************************)
(* _get_scenario_vulnerabilities                                           *)
(***************************************************************************)
DescDefault == "Avoid common web application vulnerabilities and insecure coding patterns."
DescLogin == "Avoid plaintext passwords, weak session tokens, timing attacks, and missing account lockouts."
DescFile == "Avoid unrestricted file uploads, path traversal, executable file storage, and missing size limits."
DescSearch == "Avoid SQL injection, unescaped user input, information disclosure, and missing rate limits."
DescApi == "Avoid missing authentication, rate limit bypass, information leakage, and unvalidated inputs."
DescCart == "Avoid price manipulation, insecure payment handling, and session hijacking vulnerabilities."

\* Variant: the api/service group is tested before the login group.
_get_scenario_vulnerabilities_api_first(scenario_id) ==
    IF ~Truthy(scenario_id) THEN DescDefault
    ELSE LET scenario_lower == lower(Val(scenario_id)) IN
         IF Contains("api", scenario_lower) \/ Contains("service", scenario_lower)
         THEN DescApi
         ELSE IF Contains("login", scenario_lower) THEN DescLogin
         ELSE IF Contains("file", scenario_lower) \/ Contains("upload", scenario_lower)
              THEN DescFile
         ELSE IF Contains("search", scenario_lower) THEN DescSearch
         ELSE IF Contains("cart", scenario_lower) \/ Contains("shop", scenario_lower)
              THEN DescCart
         ELSE DescDefault

\* Variant: an empty or absent scenario_id gets an empty description.
_get_scenario_vulnerabilities_empty_for_absent(scenario_id) ==
    IF ~Truthy(scenario_id) THEN ""
    ELSE LET scenario_lower == lower(Val(scenario_id)) IN
         IF Contains("login", scenario_lower) THEN DescLogin
         ELSE IF Contains("file", scenario_lower) \/ Contains("upload", scenario_lower)
              THEN DescFile
         ELSE IF Contains("search", scenario_lower) THEN DescSearch
         ELSE IF Contains("api", scenario_lower) \/ Contains("service", scenario_lower)
              THEN DescApi
         ELSE IF Contains("cart", scenario_lower) \/ Contains("shop", scenario_lower)
              THEN DescCart
         ELSE DescDefault

_get_scenario_vulnerabilities(scenario_id) ==
    IF ~Truthy(scenario_id) THEN DescDefault
    ELSE LET scenario_lower == lower(Val(scenario_id)) IN
         IF Contains("login", scenario_lower) THEN DescLogin
         ELSE IF Contains("file", scenario_lower) \/ Contains("upload", scenario_lower)
              THEN DescFile
         ELSE IF Contains("search", scenario_lower) THEN DescSearch
         ELSE IF Contains("api", scenario_lower) \/ Contains("service", scenario_lower)
              THEN DescApi
         ELSE IF Contains("cart", scenario_lower) \/ Contains("shop", scenario_lower)
              THEN DescCart
         ELSE DescDefault

(***************************************************************************)
(* generate_reminder: cache key, prompt, fallback text, and the outcomes   *)
(* of the generation attempt in the try block.                             *)
(***************************************************************************)
\* Variant: the framework is left out of the key.
CacheKeyNoFramework(scenario_id, env) ==
    Format(scenario_id) \o "_" \o env.language \o "_negative"

CacheKey(scenario_id, env) ==
    Format(scenario_id) \o "_" \o env.language \o "_" \o env.framework \o "_negative"

Prompt(scenario_id, env, scenario_vulnerabilities) ==
    "You are a security expert warning about common mistakes in "
        \o env.language \o " " \o env.framework \o " development.\n\n"
    \o "Context: Developers building " \o Format(scenario_id)
        \o " applications with " \o env.framework
        \o " often make critical security mistakes.\n\n"
    \o scenario_vulnerabilities \o "\n\n"
    \o "Generate a security warning (exactly 150 words) focusing on what NOT to do:\n"
    \o "1. Common " \o env.framework \o " security mistakes to avoid\n"
    \o "2. Dangerous " \o env.language \o " patterns that create vulnerabilities  \n"
    \o "3. Specific mistakes that lead to security breaches\n"
    \o "4. Input handling errors that cause exploits\n"
    \o "5. Authentication/authorization failures to prevent\n\n"
    \o "Frame everything as warnings about mistakes to avoid rather than positive instructions. "
    \o "Use phrases like \"Don't\", \"Avoid\", \"Never\", \"Prevent\". "
    \o "Focus on the most dangerous anti-patterns that lead to real-world exploits."

\* Variant: the fallback leaves out the vulnerability description.
FallbackNoVulnerabilities(env, scenario_vulnerabilities) ==
    "Avoid common security mistakes in " \o env.framework \o " development. "

Fallback(env, scenario_vulnerabilities) ==
    "Avoid common security mistakes in " \o env.framework \o " development. "
        \o scenario_vulnerabilities

\* What lines 47-71 can produce: an exception raised by the import, by the
\* client constructor or by the request, or a response object whose choices
\* hold the message content.
Raised(exc) == [kind |-> "raise", exc |-> exc, choices |-> <<>>]
Response(choices) == [kind |-> "response", exc |-> "", choices |-> choices]

\* Exception classes derived from Exception, all caught by `except Exception`.
ExceptionClasses ==
    {"ImportError", "OpenAIError", "APIConnectionError", "IndexError", "AttributeError"}

\* Variant: the handler catches the client library's errors only.
CatchesClientErrorsOnly(exc) == exc \in {"OpenAIError", "APIConnectionError"}

Catches(exc) == exc \in ExceptionClasses

\* Variant: the content is taken as it is, without .strip().
ReminderUnstripped(response) ==
    IF response.kind = "raise" THEN Raised(response.exc)
    ELSE IF response.choices = <<>> THEN Raised("IndexError")
    ELSE IF response.choices[1] = None THEN Raised("AttributeError")
    ELSE Response(<<response.choices[1]>>)

\* response.choices[0].message.content.strip(): the reminder, or the exception
\* the expression raises on an empty choices list or a None content.
Reminder(response) ==
    IF response.kind = "raise" THEN Raised(response.exc)
    ELSE IF response.choices = <<>> THEN Raised("IndexError")
    ELSE IF response.choices[1] = None THEN Raised("AttributeError")
    ELSE Response(<<Str(strip(Val(response.choices[1])))>>)

(***************************************************************************)
(* SecurityReminderCache (cache_manager, a key/value store).               *)
(***************************************************************************)
CacheGet(c, key) == IF key \in DOMAIN c THEN Str(c[key]) ELSE None

CacheSet(c, key, value) == [k \in DOMAIN c \cup {key} |-> IF k = key THEN value ELSE c[k]]

(***************************************************************************)
(* Inputs.                                                                 *)
(***************************************************************************)
Procs == {1, 2}

Scenarios == {None, Str("None"), Str("user_login"), Str("user")}
Languages == {"python", "login_python"}
Frameworks == {"flask", "django"}
Envs == [language : Languages, framework : Frameworks]
Cwes == {None, <<"CWE-89">>}

Contents == {None, Str("  \n"), Str(" Never trust user input.\n")}

Outcomes ==
    {Raised(e) : e \in {"ImportError", "OpenAIError", "APIConnectionError"}}
    \cup {Response(<<>>)}
    \cup {Response(<<c>>) : c \in Contents}

AllKeys == {CacheKey(s, e) : s \in Scenarios, e \in Envs}

(***************************************************************************)
(* State.                                                                  *)
(***************************************************************************)
VARIABLES
    cache,      \* self.cache: the reminders stored, by cache key
    call,       \* per caller: position in generate_reminder and its locals
    svcCalls,   \* per cache key: generation attempts made so far
    log,        \* the cache accesses made so far, with the arguments of the call
    last,       \* arguments and result of the call that returned last
    fellBack,   \* arguments and result of the calls that returned a fallback
    ncalls,     \* calls started so far
    probe       \* an input of the classifier and the result it gave

vars == <<cache, call, svcCalls, log, last, fellBack, ncalls, probe>>

NoCall == [args |-> <<>>, ret |-> ""]

\* A caller outside generate_reminder.  The fields that hold a string, an
\* environment or a response once the call assigns them hold an empty one of
\* that kind before; pc tells which of them have been assigned.
NoEnv == [language |-> "", framework |-> ""]
NoResponse == [kind |-> "none", exc |-> "", choices |-> <<>>]

Idle ==
    [pc |-> "idle", scenario_id |-> Unset, env |-> NoEnv, potential_cwes |-> Unset,
     cache_key |-> "", scenario_vulnerabilities |-> Unset, prompt |-> Unset,
     reminder |-> "", path |-> "none", ret |-> "", exc |-> "",
     failed |-> FALSE, gen |-> 0, wr |-> 0,
     before |-> NoCall, seen |-> {}, cache0 |-> <<>>,
     id |-> 0, response |-> NoResponse, raced |-> {}]

NoProbe == [in |-> None, out |-> Unset]

InitGenerator ==
    /\ cache = <<>>
    /\ call = [p \in Procs |-> Idle]
    /\ svcCalls = [k \in AllKeys |-> 0]
    /\ log = {}
    /\ last = NoCall
    /\ fellBack = {}
    /\ ncalls = 0

Init == InitGenerator /\ probe = NoProbe

Args(c) == <<c.scenario_id, c.env>>

(***************************************************************************)
(* generate_reminder, one action per step of the method.                   *)
(***************************************************************************)
\* Entry: the arguments are bound and the cache key is composed (line 38).
Call(p, scenario_id, env, potential_cwes) ==
    /\ call[p].pc \in {"idle", "done"}
    /\ ncalls < MaxCalls
    /\ call' = [call EXCEPT ![p] =
                 [Idle EXCEPT !.pc = "lookup",
                              !.scenario_id = scenario_id,
                              !.env = env,
                              !.potential_cwes = potential_cwes,
                              !.cache_key = CacheKey(scenario_id, env),
                              !.before = last,
                              !.seen = {f.ret : f \in {g \in fellBack :
                                                        g.args = <<scenario_id, env>>}},
                              !.cache0 = cache,
                              !.id = ncalls + 1]]
    /\ ncalls' = ncalls + 1
    /\ UNCHANGED <<cache, svcCalls, log, last, fellBack, probe>>

\* Variant: the scenario is classified before the cache is consulted.
LookupClassifyFirst(p) ==
    /\ call[p].pc = "lookup"
    /\ LET c == call[p]
           cached_reminder == CacheGet(cache, c.cache_key)
       IN /\ log' = log \cup {[op |-> "get", key |-> c.cache_key,
                               scenario_id |-> c.scenario_id, env |-> c.env]}
          /\ IF Truthy(cached_reminder)
             THEN /\ call' = [call EXCEPT ![p].pc = "done",
                                          ![p].path = "hit",
                                          ![p].scenario_vulnerabilities =
                                              Str(_get_scenario_vulnerabilities(c.scenario_id)),
                                          ![p].ret = Val(cached_reminder)]
                  /\ last' = [args |-> Args(c), ret |-> Val(cached_reminder)]
             ELSE /\ call' = [call EXCEPT ![p].pc = "generate",
                                          ![p].scenario_vulnerabilities =
                                              Str(_get_scenario_vulnerabilities(c.scenario_id))]
                  /\ last' = last
    /\ UNCHANGED <<cache, svcCalls, fellBack, ncalls, probe>>

\* Lines 40-44: the lookup; a truthy entry is returned, otherwise the scenario
\* is classified.
Lookup(p) ==
    /\ call[p].pc = "lookup"
    /\ LET c == call[p]
           cached_reminder == CacheGet(cache, c.cache_key)
       IN /\ log' = log \cup {[op |-> "get", key |-> c.cache_key,
                               scenario_id |-> c.scenario_id, env |-> c.env]}
          /\ IF Truthy(cached_reminder)
             THEN /\ call' = [call EXCEPT ![p].pc = "done",
                                          ![p].path = "hit",
                                          ![p].ret = Val(cached_reminder)]
                  /\ last' = [args |-> Args(c), ret |-> Val(cached_reminder)]
             ELSE /\ call' = [call EXCEPT ![p].pc = "generate",
                                          ![p].scenario_vulnerabilities =
                                              Str(_get_scenario_vulnerabilities(c.scenario_id))]
                  /\ last' = last
    /\ UNCHANGED <<cache, svcCalls, fellBack, ncalls, probe>>

\* Lines 46-71: the try block is entered and the generation attempt starts.
Invoke(p) ==
    /\ call[p].pc = "generate"
    /\ LET c == call[p] IN
       /\ call' = [call EXCEPT ![p].pc = "waiting",
                               ![p].prompt = Str(Prompt(c.scenario_id, c.env,
                                                        Val(c.scenario_vulnerabilities))),
                               ![p].gen = c.gen + 1]
       /\ svcCalls' = [svcCalls EXCEPT ![c.cache_key] = @ + 1]
    /\ UNCHANGED <<cache, log, last, fellBack, ncalls, probe>>

\* Variant: a failed attempt is retried once before the fallback is built.
RespondRetryOnce(p, response) ==
    /\ call[p].pc = "waiting"
    /\ LET c == call[p]
           r == Reminder(response)
       IN call' = [call EXCEPT ![p] =
                    IF r.kind = "response"
                    THEN [c EXCEPT !.pc = "store", !.path = "generated",
                                   !.response = response,
                                   !.reminder = Val(r.choices[1])]
                    ELSE IF c.gen < 2
                    THEN [c EXCEPT !.pc = "generate"]
                    ELSE IF Catches(r.exc)
                    THEN [c EXCEPT !.pc = "store", !.path = "fallback",
                                   !.response = response,
                                   !.failed = TRUE,
                                   !.reminder = Fallback(c.env,
                                                         Val(c.scenario_vulnerabilities))]
                    ELSE [c EXCEPT !.pc = "raised", !.response = response,
                                   !.failed = TRUE, !.exc = r.exc]]
    /\ UNCHANGED <<cache, svcCalls, log, last, fellBack, ncalls, probe>>

\* Variant: a failed attempt is repeated until the service answers (the
\* failed flag alternates, so that every repetition is a step).
RespondRetryUntilAnswered(p, response) ==
    /\ call[p].pc = "waiting"
    /\ LET c == call[p]
           r == Reminder(response)
       IN call' = [call EXCEPT ![p] =
                    IF r.kind = "response"
                    THEN [c EXCEPT !.pc = "store", !.path = "generated",
                                   !.response = response,
                                   !.failed = FALSE,
                                   !.reminder = Val(r.choices[1])]
                    ELSE [c EXCEPT !.failed = ~c.failed]]
    /\ UNCHANGED <<cache, svcCalls, log, last, fellBack, ncalls, probe>>

\* Variant: the fallback names the weaknesses passed as potential_cwes.
RespondCwesInFallback(p, response) ==
    /\ call[p].pc = "waiting"
    /\ LET c == call[p]
           r == Reminder(response)
       IN call' = [call EXCEPT ![p] =
                    IF r.kind = "response"
                    THEN [c EXCEPT !.pc = "store", !.path = "generated",
                                   !.response = response,
                                   !.reminder = Val(r.choices[1])]
                    ELSE IF Catches(r.exc)
                    THEN [c EXCEPT !.pc = "store", !.path = "fallback",
                                   !.response = response,
                                   !.failed = TRUE,
                                   !.reminder =
                                       Fallback(c.env, Val(c.scenario_vulnerabilities))
                                           \o (IF c.potential_cwes = None THEN ""
                                               ELSE " " \o c.potential_cwes[1])]
                    ELSE [c EXCEPT !.pc = "raised", !.response = response,
                                   !.failed = TRUE, !.exc = r.exc]]
    /\ UNCHANGED <<cache, svcCalls, log, last, fellBack, ncalls, probe>>

\* Lines 66-73 and 77-78: the attempt completes; the reminder is the stripped
\* content, or the handler builds the fallback from the exception it catches.
Respond(p, response) ==
    /\ call[p].pc = "waiting"
    /\ LET c == call[p]
           r == Reminder(response)
       IN call' = [call EXCEPT ![p] =
                    IF r.kind = "response"
                    THEN [c EXCEPT !.pc = "store", !.path = "generated",
                                   !.response = response,
                                   !.reminder = Val(r.choices[1])]
                    ELSE IF Catches(r.exc)
                    THEN [c EXCEPT !.pc = "store", !.path = "fallback",
                                   !.response = response,
                                   !.failed = TRUE,
                                   !.reminder = Fallback(c.env,
                                                         Val(c.scenario_vulnerabilities))]
                    ELSE [c EXCEPT !.pc = "raised", !.response = response,
                                   !.failed = TRUE, !.exc = r.exc]]
    /\ UNCHANGED <<cache, svcCalls, log, last, fellBack, ncalls, probe>>

\* The calls of other callers that missed on the key of p's call and have
\* not written yet.
InFlight(p) ==
    {call[q].id : q \in {r \in Procs \ {p} :
                            /\ call[r].pc \in {"generate", "waiting", "store"}
                            /\ call[r].cache_key = call[p].cache_key}}

\* Variant: an entry already present is not overwritten.
StoreIfAbsent(p) ==
    /\ call[p].pc = "store"
    /\ LET c == call[p] IN
       /\ cache' = IF c.cache_key \in DOMAIN cache THEN cache
                   ELSE CacheSet(cache, c.cache_key, c.reminder)
       /\ log' = log \cup {[op |-> "set", key |-> c.cache_key,
                            scenario_id |-> c.scenario_id, env |-> c.env]}
       /\ call' = [call EXCEPT ![p].pc = "return", ![p].wr = c.wr + 1,
                               ![p].raced = InFlight(p)]
    /\ UNCHANGED <<svcCalls, last, fellBack, ncalls, probe>>

\* Variant: the fallback is returned without being written to the cache.
StoreGeneratedOnly(p) ==
    /\ call[p].pc = "store"
    /\ LET c == call[p] IN
       IF c.path = "fallback"
       THEN /\ call' = [call EXCEPT ![p].pc = "return"]
            /\ UNCHANGED <<cache, log>>
       ELSE /\ cache' = CacheSet(cache, c.cache_key, c.reminder)
            /\ log' = log \cup {[op |-> "set", key |-> c.cache_key,
                                 scenario_id |-> c.scenario_id, env |-> c.env]}
            /\ call' = [call EXCEPT ![p].pc = "return", ![p].wr = c.wr + 1,
                                    ![p].raced = InFlight(p)]
    /\ UNCHANGED <<svcCalls, last, fellBack, ncalls, probe>>

\* Lines 74 and 79: self.cache.set(cache_key, ...).
Store(p) ==
    /\ call[p].pc = "store"
    /\ LET c == call[p] IN
       /\ cache' = CacheSet(cache, c.cache_key, c.reminder)
       /\ log' = log \cup {[op |-> "set", key |-> c.cache_key,
                            scenario_id |-> c.scenario_id, env |-> c.env]}
       /\ call' = [call EXCEPT ![p].pc = "return", ![p].wr = c.wr + 1,
                               ![p].raced = InFlight(p)]
    /\ UNCHANGED <<svcCalls, last, fellBack, ncalls, probe>>

\* Lines 75 and 80: return reminder / return fallback.
Return(p) ==
    /\ call[p].pc = "return"
    /\ LET c == call[p] IN
       /\ call' = [call EXCEPT ![p].pc = "done", ![p].ret = c.reminder]
       /\ last' = [args |-> Args(c), ret |-> c.reminder]
       /\ fellBack' = IF c.failed
                       THEN fellBack \cup {[args |-> Args(c), ret |-> c.reminder]}
                       ELSE fellBack
    /\ UNCHANGED <<cache, svcCalls, log, ncalls, probe>>

\* One caller, one call at a time.
Next ==
    \/ \E s \in Scenarios, e \in Envs, cw \in Cwes : Call(1, s, e, cw)
    \/ Lookup(1)
    \/ Invoke(1)
    \/ \E r \in Outcomes : Respond(1, r)
    \/ Store(1)
    \/ Return(1)

Spec == Init /\ [][Next]_vars

(***************************************************************************)
(* Two callers whose calls overlap: the steps of generate_reminder         *)
(* interleave, with no lock around them.                                   *)
(***************************************************************************)
ConcScenarios == {Str("user_login"), Str("user")}
ConcEnvs == [language : Languages, framework : {"flask"}]
ConcOutcomes ==
    {Raised("APIConnectionError"),
     Response(<<Str("  \n")>>),
     Response(<<Str(" Never trust user input.\n")>>)}

NextConc ==
    \E p \in Procs :
        \/ \E s \in ConcScenarios, e \in ConcEnvs : Call(p, s, e, None)
        \/ Lookup(p)
        \/ Invoke(p)
        \/ \E r \in ConcOutcomes : Respond(p, r)
        \/ Store(p)
        \/ Return(p)

SpecConc == Init /\ [][NextConc]_vars

\* A caller that is inside generate_reminder goes on to its next statement,
\* and the generation attempt it waits for completes at some time.
Fairness ==
    \A p \in Procs :
        /\ WF_vars(Lookup(p))
        /\ WF_vars(Invoke(p))
        /\ WF_vars(\E r \in ConcOutcomes : Respond(p, r))
        /\ WF_vars(Store(p))
        /\ WF_vars(Return(p))

\* Overlapping calls for one cache key.
LiveEnvs == [language : {"python"}, framework : {"flask"}]

NextLive ==
    \E p \in Procs :
        \/ \E e \in LiveEnvs : Call(p, Str("user_login"), e, None)
        \/ Lookup(p)
        \/ Invoke(p)
        \/ \E r \in ConcOutcomes : Respond(p, r)
        \/ Store(p)
        \/ Return(p)

SpecLive == Init /\ [][NextLive]_vars /\ Fairness

(***************************************************************************)
(* The classifier on its own, applied to bounded inputs.                   *)
(***************************************************************************)
Tokens == {"login", "Login", "FILE", "upload", "Search", "API", "service",
           "cart", "Shop", "lo", "gin", "_", "x"}

RECURSIVE Join(_)
Join(ws) == IF ws = <<>> THEN "" ELSE Head(ws) \o Join(Tail(ws))

ClassifyInputs ==
    {None} \cup {Str(Join(ws)) : ws \in UNION {[1..k -> Tokens] : k \in 0..MaxTokens}}

InitClassify ==
    /\ InitGenerator
    /\ probe \in {[in |-> i, out |-> Unset] : i \in ClassifyInputs}

Classify ==
    /\ probe.out = Unset
    /\ probe' = [probe EXCEPT !.out = Str(_get_scenario_vulnerabilities(probe.in))]
    /\ UNCHANGED <<cache, call, svcCalls, log, last, fellBack, ncalls>>

NextClassify == Classify

SpecClassify == InitClassify /\ [][NextClassify]_vars

(***************************************************************************)
(* Properties of generate_reminder in one-call-at-a-time use (Spec).       *)
(***************************************************************************)
Returned(c) == c.pc = "done"

Miss(c) == c.path \in {"generated", "fallback"}

\* C1: a call that directly follows a call with the same (scenario_id,
\* language, framework) returns the string the first call returned and makes
\* no generation attempt, whatever the first call's outcome was.
C1_SecondCallIdentical ==
    \A p \in Procs :
        LET c == call[p] IN
        (Returned(c) /\ c.before.args = Args(c))
            => (c.ret = c.before.ret /\ c.gen = 0)

\* C2: for every cache key, at most one generation attempt is ever made.
C2_AtMostOneGenerationPerKey == \A k \in AllKeys : svcCalls[k] <= 1

\* C3: a failed generation attempt never leaves the call in an error state;
\* the call goes on to store and return the fallback string.
C3_FailureNeverPropagates ==
    \A p \in Procs :
        LET c == call[p] IN
        /\ c.pc # "raised"
        /\ c.failed => /\ c.pc \in {"store", "return", "done"}
                       /\ c.path = "fallback"
                       /\ c.reminder = "Avoid common security mistakes in "
                                          \o c.env.framework \o " development. "
                                          \o Val(c.scenario_vulnerabilities)
        /\ (c.failed /\ Returned(c)) => c.ret = c.reminder

C3_Witness ==
    \E p \in Procs : Returned(call[p]) /\ call[p].failed /\ call[p].gen = 1

\* C4: every returned value is a non-empty string.
C4_ReturnNonEmpty ==
    \A p \in Procs : Returned(call[p]) => call[p].ret # ""

\* C5: a call whose generation attempt failed returns the fixed template
\* filled with the framework name and the description the classifier selects
\* for its scenario_id, a non-empty string; every later call with the same
\* (scenario_id, language, framework) returns that string and makes no
\* generation attempt, whatever the service would answer by then.
C5_FallbackCachedForGood ==
    \A p \in Procs :
        LET c == call[p] IN
        /\ (Returned(c) /\ c.failed) =>
              /\ c.ret # ""
              /\ c.ret = "Avoid common security mistakes in " \o c.env.framework
                             \o " development. "
                             \o _get_scenario_vulnerabilities(c.scenario_id)
              /\ Contains(c.env.framework, c.ret)
        /\ (Returned(c) /\ c.seen # {}) => (c.seen = {c.ret} /\ c.gen = 0)
        /\ (c.pc # "idle" /\ c.seen # {}) => (c.gen = 0 /\ c.pc \in {"lookup", "done"})

C5_Witness ==
    \E p \in Procs :
        /\ Returned(call[p])
        /\ call[p].seen = {call[p].ret}
        /\ call[p].path = "hit"

\* C6: cache accesses of calls that differ only in env.framework use different
\* keys, and cache accesses of calls with the same (scenario_id, language,
\* framework) use the same key.
C6_KeyComposition ==
    \A a, b \in log :
        (a.scenario_id = b.scenario_id /\ a.env.language = b.env.language) =>
            /\ a.env.framework # b.env.framework => a.key # b.key
            /\ a.env.framework = b.env.framework => a.key = b.key

C6_Witness ==
    \E a, b \in log :
        /\ a.scenario_id = b.scenario_id
        /\ a.env.language = b.env.language
        /\ a.env.framework # b.env.framework
        /\ a.op = "set" /\ b.op = "set"
        /\ \E p \in Procs : Returned(call[p]) /\ call[p].potential_cwes # None

\* C7: on a miss, generated or fallback, the call has made exactly one cache
\* write by the time it returns, to the key composed from its arguments; the
\* cache then differs from the cache at the start of the call in that entry
\* alone, which holds the string returned.
C7_OneWriteBeforeReturn ==
    \A p \in Procs :
        LET c == call[p]
            key == Format(c.scenario_id) \o "_" \o c.env.language \o "_"
                       \o c.env.framework \o "_negative"
        IN (c.pc \in {"return", "done"} /\ Miss(c)) =>
              /\ c.wr = 1
              /\ key \in DOMAIN cache
              /\ cache[key] = c.reminder
              /\ \A k \in DOMAIN cache \ {key} : k \in DOMAIN c.cache0 /\ cache[k] = c.cache0[k]
              /\ DOMAIN c.cache0 \subseteq DOMAIN cache
              /\ Returned(c) => c.ret = cache[key]

C7_Witness ==
    /\ \E p \in Procs : Returned(call[p]) /\ call[p].path = "fallback" /\ call[p].wr = 1
    /\ \E k \in DOMAIN cache : cache[k] = "Never trust user input."

\* C8: when the cache holds a non-empty value under the key of the call, the
\* call returns that value, having classified nothing, built no prompt, made
\* no generation attempt and no cache write: the cache is as it was.
C8_HitLeavesAllUnchanged ==
    \A p \in Procs :
        LET c == call[p] IN
        (c.pc \notin {"idle", "lookup"} /\ c.cache_key \in DOMAIN c.cache0
            /\ c.cache0[c.cache_key] # "") =>
              /\ Returned(c)
              /\ c.ret = c.cache0[c.cache_key]
              /\ cache = c.cache0
              /\ c.scenario_vulnerabilities = Unset
              /\ c.prompt = Unset
              /\ c.gen = 0
              /\ c.wr = 0

C8_Witness ==
    \E p \in Procs :
        /\ Returned(call[p])
        /\ call[p].cache_key \in DOMAIN call[p].cache0
        /\ call[p].ret = call[p].cache0[call[p].cache_key]
        /\ call[p].ret # ""

(***************************************************************************)
(* Properties of the classifier (SpecClassify).                            *)
(***************************************************************************)
\* C9: the classifier returns the description of the first keyword group, in
\* the order login, file/upload, search, api/service, cart/shop, one of whose
\* keywords is a substring of the lower-cased scenario_id, and the default
\* description when no group has one; an identifier with both "api" and
\* "login" gets the login description; the result for an identifier is the
\* result for its lower-cased form.
C9_FirstGroupWins ==
    LET groups == << <<{"login"}, DescLogin>>,
                     <<{"file", "upload"}, DescFile>>,
                     <<{"search"}, DescSearch>>,
                     <<{"api", "service"}, DescApi>>,
                     <<{"cart", "shop"}, DescCart>> >>
        hits(s) == {i \in 1..5 : \E kw \in groups[i][1] : Contains(kw, lower(s))}
        expected(s) ==
            IF hits(s) = {} THEN DescDefault
            ELSE groups[CHOOSE i \in hits(s) : \A j \in hits(s) : i <= j][2]
    IN /\ _get_scenario_vulnerabilities(Str("api-login")) = DescLogin
       /\ (probe.out # Unset /\ probe.in # None) =>
             /\ probe.out = Str(expected(Val(probe.in)))
             /\ probe.out = Str(_get_scenario_vulnerabilities(Str(lower(Val(probe.in)))))

C9_Witness ==
    /\ probe.in # None
    /\ probe.out = Str(DescLogin)
    /\ Contains("api", lower(Val(probe.in)))
    /\ Contains("login", lower(Val(probe.in)))
    /\ lower(Val(probe.in)) # Val(probe.in)

\* C10: the classifier gives a result for every input, one of the six fixed
\* non-empty descriptions; the result is the default description for an absent
\* or empty scenario_id and for an identifier in which no keyword occurs
\* (case-insensitively); classifying changes nothing of the generator's state.
C10_TotalAndPure ==
    /\ [](/\ probe.out = Unset => ENABLED Classify
          /\ probe.out # Unset =>
                /\ Val(probe.out) \in {DescDefault, DescLogin, DescFile,
                                       DescSearch, DescApi, DescCart}
                /\ Val(probe.out) # ""
                /\ probe.in \in {None, Str("")} => probe.out = Str(DescDefault)
                /\ (/\ probe.in # None
                    /\ \A kw \in {"login", "file", "upload", "search", "api",
                                  "service", "cart", "shop"} :
                           ~Contains(kw, lower(Val(probe.in))))
                        => probe.out = Str(DescDefault))
    /\ [][/\ probe'.in = probe.in
          /\ UNCHANGED <<cache, call, svcCalls, log, last, fellBack, ncalls>>]_vars

C10_Witness ==
    /\ probe.in = None
    /\ probe.out = Str(DescDefault)

(***************************************************************************)
(* More properties of generate_reminder.                                   *)
(***************************************************************************)
\* C11: the return value, the resulting cache and the number of generation
\* attempts of a call are a function of the cache at the start of the call,
\* of (scenario_id, language, framework) and of the answer of the service,
\* in which potential_cwes does not occur: two calls that differ only in
\* potential_cwes give the same three results.
C11_CwesIgnored ==
    \A p \in Procs :
        LET c == call[p]
            key == Format(c.scenario_id) \o "_" \o c.env.language \o "_"
                       \o c.env.framework \o "_negative"
            hit == key \in DOMAIN c.cache0 /\ c.cache0[key] # ""
            answered == /\ c.response.kind = "response"
                        /\ c.response.choices # <<>>
                        /\ c.response.choices[1] # None
            result == IF hit THEN c.cache0[key]
                      ELSE IF answered THEN strip(Val(c.response.choices[1]))
                      ELSE "Avoid common security mistakes in " \o c.env.framework
                               \o " development. "
                               \o _get_scenario_vulnerabilities(c.scenario_id)
        IN Returned(c) =>
              /\ c.ret = result
              /\ cache = IF hit THEN c.cache0
                         ELSE [k \in DOMAIN c.cache0 \cup {key} |->
                                  IF k = key THEN result ELSE c.cache0[k]]
              /\ c.gen = IF hit THEN 0 ELSE 1

C11_Witness ==
    \E p \in Procs :
        /\ Returned(call[p])
        /\ call[p].potential_cwes # None
        /\ call[p].path = "fallback"

\* C12: when a call writes the cache while a call of the other caller has
\* missed on the same key and not written yet (both lookups came before
\* either write), each of the two makes its own generation attempt, so the
\* key gets two attempts; the second call writes to the same key too, and
\* from then on the cache holds the second call's value; each call returns
\* the value it produced itself.
C12_LastWriteWins ==
    \A p, q \in Procs :
        LET a == call[p]
            b == call[q]
        IN (p # q /\ b.id \in a.raced) =>
              /\ a.cache_key = b.cache_key
              /\ a.gen = 1 /\ a.wr = 1
              /\ b.pc \in {"generate", "waiting", "store", "return", "done"}
              /\ b.pc = "generate" => (b.gen = 0 /\ ENABLED Invoke(q))
              /\ b.pc # "generate" => (b.gen = 1 /\ svcCalls[b.cache_key] >= 2)
              /\ b.pc \in {"generate", "waiting", "store"} =>
                    (b.wr = 0 /\ cache[a.cache_key] = a.reminder)
              /\ b.pc = "store" => ENABLED Store(q)
              /\ b.pc \in {"return", "done"} =>
                    (b.wr = 1 /\ cache[a.cache_key] = b.reminder)
              /\ Returned(a) => a.ret = a.reminder
              /\ Returned(b) => b.ret = b.reminder

C12_Witness ==
    \E p, q \in Procs :
        /\ p # q
        /\ call[q].id \in call[p].raced
        /\ Returned(call[p]) /\ Returned(call[q])
        /\ call[p].ret # call[q].ret
        /\ cache[call[p].cache_key] = call[q].ret
        /\ cache[call[p].cache_key] # call[p].ret
        /\ svcCalls[call[p].cache_key] = 2

\* C13: a call makes at most one generation attempt, whether or not calls
\* overlap; the step that ends the attempt leads to the cache write of the
\* reminder or of the fallback, never back to another attempt, and a call
\* whose attempt failed made exactly one.
C13_NoRetry ==
    /\ [](\A p \in Procs :
            /\ call[p].gen <= 1
            /\ call[p].failed => (call[p].gen = 1 /\ call[p].path = "fallback"))
    /\ [][\A p \in Procs :
            (call[p].pc = "waiting" /\ call'[p] # call[p]) =>
                /\ call'[p].pc = "store"
                /\ call'[p].gen = 1
                /\ (call'[p].response.kind = "raise" => call'[p].path = "fallback")]_vars

C13_Witness ==
    /\ \E p \in Procs : call[p].failed /\ Returned(call[p]) /\ call[p].gen = 1
    /\ \E p \in Procs : call[p].pc = "waiting"

\* C14: a call whose generation attempt gave a completion writes to the cache
\* and returns that completion with its leading and trailing whitespace
\* removed, nothing else; a call writes or returns the fallback only when its
\* attempt raised or gave a response without content.
C14_SuccessReturnsTrimmedCompletion ==
    \A p \in Procs :
        LET c == call[p]
            answered == /\ c.response.kind = "response"
                        /\ c.response.choices # <<>>
                        /\ c.response.choices[1] # None
            text == Val(c.response.choices[1])
            n == Len(text)
            IsTrimOf(t) ==
                \E i \in 1..(n + 1) :
                    /\ i + Len(t) - 1 <= n
                    /\ t = SubSeq(text, i, i + Len(t) - 1)
                    /\ \A k \in 1..(i - 1) : SubSeq(text, k, k) \in Whitespace
                    /\ \A k \in (i + Len(t))..n : SubSeq(text, k, k) \in Whitespace
                    /\ t # "" => /\ SubSeq(t, 1, 1) \notin Whitespace
                                 /\ SubSeq(t, Len(t), Len(t)) \notin Whitespace
        IN (c.pc \in {"store", "return", "done"} /\ Miss(c)) =>
              /\ answered =>
                    /\ c.path = "generated"
                    /\ IsTrimOf(c.reminder)
                    /\ c.pc \in {"return", "done"} => cache[c.cache_key] = c.reminder
                    /\ Returned(c) => c.ret = c.reminder
              /\ c.path = "fallback" => ~answered

C14_Witness ==
    \E p \in Procs :
        /\ Returned(call[p])
        /\ call[p].path = "generated"
        /\ call[p].response = Response(<<Str(" Never trust user input.\n")>>)
        /\ call[p].ret = "Never trust user input."
        /\ cache[call[p].cache_key] = "Never trust user input."

\* C15: given that a generation attempt that was started completes, every
\* call that was started returns; at every statement other than the wait
\* for the service the call can take its next step at once.
C15_EveryCallReturns ==
    /\ [](\A p \in Procs :
            /\ call[p].pc = "lookup" => ENABLED Lookup(p)
            /\ call[p].pc = "generate" => ENABLED Invoke(p)
            /\ call[p].pc = "store" => ENABLED Store(p)
            /\ call[p].pc = "return" => ENABLED Return(p)
            /\ call[p].pc \in {"idle", "lookup", "generate", "waiting",
                               "store", "return", "done"})
    /\ \A p \in Procs :
          (call[p].pc \in {"lookup", "generate", "waiting", "store", "return"})
              ~> (call[p].pc = "done")

C15_Witness ==
    \E p, q \in Procs :
        /\ p # q
        /\ Returned(call[p]) /\ call[p].path = "fallback"
        /\ Returned(call[q]) /\ call[q].path = "generated"

\* C16: a string returned from the cache was written there by a call with
\* the same (scenario_id, language, framework) as the call that returns it:
\* calls with distinct triples never use one cache entry.
C16_SlotIsolation ==
    \A p \in Procs :
        LET c == call[p] IN
        (Returned(c) /\ c.path = "hit") =>
            \A e \in log :
                (e.op = "set" /\ e.key = c.cache_key) =>
                    (e.scenario_id = c.scenario_id /\ e.env = c.env)

=============================================================================
